---- MODULE Spec2Model ----
(***************************************************************************)
(* SmartFileOrganizer (file_organizer.py): one pass of organize_files.     *)
(*                                                                         *)
(* Text (file names, category names) is a sequence of one-character        *)
(* strings, so that os.path.splitext, the "_<counter>" suffix and the      *)
(* character stripping are computed as the code computes them.  A keyword  *)
(* is a small integer.  A path below the target root is the pair           *)
(* <<category, file name>>.  A source file is identified by its position   *)
(* in the listing of the source tree.                                      *)
(***************************************************************************)
EXTENDS Integers, Sequences, FiniteSets, TLC

(* ------------------------------ bounds -------------------------------- *)

\* Largest number of files in the source tree.
MaxFiles == 3

(* ------------------------------- text --------------------------------- *)

Range(s) == {s[i] : i \in 1..Len(s)}

Misc == <<"M", "i", "s", "c">>
Docs == <<"D", "o", "c", "s">>

\* The characters of the class [<>:"/\\|?*] removed by re.sub.
IllegalChars == {"<", ">", ":", "\"", "/", "\\", "|", "?", "*"}

\* re.sub(r'[<>:"/\\|?*]', '', s)
Sanitize(s) == SelectSeq(s, LAMBDA c : c \notin IllegalChars)

RECURSIVE LStrip(_)
LStrip(s) == IF s # <<>> /\ Head(s) = " " THEN LStrip(Tail(s)) ELSE s

RECURSIVE RStrip(_)
RStrip(s) ==
    IF s # <<>> /\ s[Len(s)] = " " THEN RStrip(SubSeq(s, 1, Len(s) - 1)) ELSE s

\* str.strip() (blanks are the only whitespace of the alphabet)
Strip(s) == RStrip(LStrip(s))

\* The position of the last "." of s, 0 when there is none (str.rfind + 1).
RECURSIVE RFindDot(_, _)
RFindDot(s, i) ==
    IF i = 0 THEN 0 ELSE IF s[i] = "." THEN i ELSE RFindDot(s, i - 1)

\* os.path.splitext on a bare file name: the extension starts at the last
\* dot, unless only dots precede it.
SplitExt(s) ==
    LET d == RFindDot(s, Len(s))
    IN  IF d > 1 /\ \E i \in 1..(d - 1) : s[i] # "."
        THEN <<SubSeq(s, 1, d - 1), SubSeq(s, d, Len(s))>>
        ELSE <<s, <<>>>>

DigitChar == <<"0", "1", "2", "3", "4", "5", "6", "7", "8", "9">>

\* str(n) for n >= 0, as the f-string formats the counter.
RECURSIVE IntToStr(_)
IntToStr(n) ==
    IF n < 10 THEN <<DigitChar[n + 1]>>
    ELSE IntToStr(n \div 10) \o <<DigitChar[(n % 10) + 1]>>

(* --------------------------- the collaborators ------------------------ *)

\* A regex group that did not match (the code's None).  A matched group is
\* never empty: each pattern ends in (.+).
None == <<>>

\* Keyword lists the classification collaborator answers with: k1..k3,
\* k1..k6 and k1..k10.
KwShort == <<1, 2, 3>>
KwMid == <<1, 2, 3, 4, 5, 6>>
KwLong == <<1, 2, 3, 4, 5, 6, 7, 8, 9, 10>>

CategoryAnswers == {None, Docs, <<"M", "e", ":", "d", "i", "a">>}
KeywordAnswers == {None, KwShort, KwMid, KwLong}
NameAnswers == {None, <<" ", "a", "?">>}

\* The classification collaborator's call raises (timeout, HTTP error,
\* malformed JSON).
Raised == [ok |-> FALSE, category |-> None, keywords |-> None, newname |-> None]

\* What one call of the classification collaborator can do: raise, or return
\* a text in which each of the three labelled fields is present or missing
\* (the name is suggested along with one category and keyword list only).
Responses ==
    {Raised}
    \cup [ok : {TRUE}, category : CategoryAnswers,
          keywords : KeywordAnswers, newname : {None}]
    \cup [ok : {TRUE}, category : {Docs}, keywords : {KwShort},
          newname : NameAnswers \ {None}]

\* The responses of a collaborator that names no file and knows two
\* categories and one keyword list.
PlainResponses ==
    {Raised} \cup [ok : {TRUE}, category : CategoryAnswers \ {None},
                   keywords : {None, KwShort}, newname : {None}]

\* What one call of the naming collaborator can do: raise, or return a name.
NamingResponses ==
    {[ok |-> FALSE, text |-> None]}
    \cup [ok : {TRUE}, text : {Docs, <<"A", "l", "l", "?">>}]

\* File names found in the source tree (sub-directories may repeat a name).
FileNames == {<<"a", ".", "t">>, <<"a", "_", "1", ".", "t">>}

(* ------------------------- analyze_filename --------------------------- *)

\* analyze_filename(filename) when the collaborator's call does r: the tuple
\* (category, new name with extension, keywords).
analyze_filename(filename, r) ==
    LET name == SplitExt(filename)[1]
        ext == SplitExt(filename)[2]
        category == IF r.category # None THEN Strip(r.category) ELSE Misc
        new_name == IF r.newname # None THEN Strip(r.newname) ELSE name
    IN  IF r.ok
        THEN [category |-> Sanitize(category),
              new_name |-> Sanitize(new_name) \o ext,
              keywords |-> r.keywords]
        ELSE [category |-> Misc, new_name |-> filename, keywords |-> <<>>]

(* -------------------------- merge_categories -------------------------- *)

\* category_keywords[category].update(keywords) on the insertion-ordered
\* dictionary ck, a sequence of [category, keywords] entries.
UpdateKeywords(ck, category, keywords) ==
    IF \E i \in 1..Len(ck) : ck[i].category = category
    THEN [i \in 1..Len(ck) |->
             IF ck[i].category = category
             THEN [ck[i] EXCEPT !.keywords = @ \cup Range(keywords)]
             ELSE ck[i]]
    ELSE Append(ck, [category |-> category, keywords |-> Range(keywords)])

\* The first loop of merge_categories, from record i on.
RECURSIVE CollectKeywords(_, _, _)
CollectKeywords(file_data, i, ck) ==
    IF i > Len(file_data) THEN ck
    ELSE CollectKeywords(file_data, i + 1,
             UpdateKeywords(ck, file_data[i].category, file_data[i].keywords))

\* The two lengths the similarity is the quotient of.
Similarity(keywords1, keywords2) ==
    [num |-> Cardinality(keywords1 \cap keywords2),
     den |-> Cardinality(keywords1 \cup keywords2)]

\* The threshold 0.3 as the fraction 3/10.
ThresholdNum == 3
ThresholdDen == 10

\* The comparison written similarity >= 0.3.
ExceedsThresholdInclusive(sim) == sim.num * ThresholdDen >= ThresholdNum * sim.den

\* similarity > 0.3.  The quotient of two small integers, rounded to a
\* double, exceeds the double 0.3 exactly when the fraction exceeds 3/10.
ExceedsThreshold(sim) == sim.num * ThresholdDen > ThresholdNum * sim.den

\* The inner loop over category_keywords.items() for the seed at position
\* c1, from position j on: the list similar_cats, or the division fault.
RECURSIVE SimilarCats(_, _, _, _, _)
SimilarCats(ck, c1, j, processed, similar_cats) ==
    IF j > Len(ck) THEN [fault |-> FALSE, cats |-> similar_cats]
    ELSE IF ck[j].category # ck[c1].category /\ ck[j].category \notin processed
    THEN LET sim == Similarity(ck[c1].keywords, ck[j].keywords)
         IN  IF sim.den = 0 THEN [fault |-> TRUE, cats |-> similar_cats]
             ELSE SimilarCats(ck, c1, j + 1, processed,
                      IF ExceedsThreshold(sim)
                      THEN Append(similar_cats, ck[j].category)
                      ELSE similar_cats)
    ELSE SimilarCats(ck, c1, j + 1, processed, similar_cats)

\* The except clause returning categories[-1].
get_merged_category_name_last(categories, r) ==
    IF Len(categories) = 1 THEN categories[1]
    ELSE IF r.ok THEN Sanitize(Strip(r.text))
    ELSE categories[Len(categories)]

\* get_merged_category_name(categories) when the naming collaborator's call
\* (made only for two categories or more) does r.
get_merged_category_name(categories, r) ==
    IF Len(categories) = 1 THEN categories[1]
    ELSE IF r.ok THEN Sanitize(Strip(r.text))
    ELSE categories[1]

\* The loop over similar_cats without processed_categories.add(cat).
AddProcessedNothing(processed, similar_cats) == processed

\* processed_categories.add(cat) for each cat of similar_cats
AddProcessed(processed, similar_cats) == processed \cup Range(similar_cats)

\* The (file_path, new_name) pairs of the records of category cat, in order.
RECURSIVE FilesOf(_, _, _)
FilesOf(file_data, cat, i) ==
    IF i > Len(file_data) THEN <<>>
    ELSE (IF file_data[i].category = cat
          THEN <<[file_path |-> file_data[i].file_path,
                  new_name |-> file_data[i].new_name]>>
          ELSE <<>>) \o FilesOf(file_data, cat, i + 1)

\* merged_categories[merged_name].append(...) for the files of every
\* category of similar_cats from position k on; merged is the
\* insertion-ordered dictionary, a sequence of [name, files] entries.
RECURSIVE AppendFiles(_, _, _, _, _)
AppendFiles(merged, merged_name, similar_cats, k, file_data) ==
    IF k > Len(similar_cats) THEN merged
    ELSE LET fs == FilesOf(file_data, similar_cats[k], 1)
             next ==
                 IF fs = <<>> THEN merged
                 ELSE IF \E i \in 1..Len(merged) : merged[i].name = merged_name
                 THEN [i \in 1..Len(merged) |->
                          IF merged[i].name = merged_name
                          THEN [merged[i] EXCEPT !.files = @ \o fs]
                          ELSE merged[i]]
                 ELSE Append(merged, [name |-> merged_name, files |-> fs])
         IN  AppendFiles(next, merged_name, similar_cats, k + 1, file_data)

(* ------------------------ destination resolution ---------------------- *)

\* category_path / f"{name_parts[0]}_{counter}{name_parts[1]}"
Candidate(category, new_name, counter) ==
    <<category,
      SplitExt(new_name)[1] \o <<"_">> \o IntToStr(counter) \o SplitExt(new_name)[2]>>

\* The while loop: new_file_path and counter are its two variables, existing
\* the paths at which Path.exists() is true.
RECURSIVE ResolveLoop(_, _, _, _, _)
ResolveLoop(existing, category, new_name, new_file_path, counter) ==
    IF new_file_path \in existing
    THEN ResolveLoop(existing, category, new_name,
                     Candidate(category, new_name, counter), counter + 1)
    ELSE new_file_path

\* new_file_path after lines 181-188.
Resolve(existing, category, new_name) ==
    ResolveLoop(existing, category, new_name, <<category, new_name>>, 1)

\* The files below the target root after a successful shutil.move to dest.
MoveEffect(files, dest) == files \cup {dest}

\* stats["moved"] += 1 placed before the call of shutil.move.
StatsCountingEarly(stats, dry, ok) ==
    IF dry THEN stats
    ELSE IF ok THEN [stats EXCEPT !.moved = @ + 1]
    ELSE [stats EXCEPT !.moved = @ + 1, !.errors = @ + 1]

\* stats["moved"] += 1 placed after the if not dry_run block.
StatsCountingDryRun(stats, dry, ok) ==
    IF dry \/ ok THEN [stats EXCEPT !.moved = @ + 1]
    ELSE [stats EXCEPT !.errors = @ + 1]

\* stats after one pass through the try block; ok is whether shutil.move
\* (called in a real run only) returned.
StatsAfterMove(stats, dry, ok) ==
    IF dry THEN stats
    ELSE IF ok THEN [stats EXCEPT !.moved = @ + 1]
    ELSE [stats EXCEPT !.errors = @ + 1]

(* ------------------------------ the state ----------------------------- *)

VARIABLES
    source_files,         \* input: the file names source_path.rglob yields, in order
    target0,              \* input: the target tree before the run
    dry_run,              \* input: the dry_run argument
    pc,                   \* where organize_files is
    fault,                \* the exception that left organize_files, or "none"
    stats,                \* the stats dictionary
    all_file_data,        \* the list all_file_data
    category_keywords,    \* merge_categories: the dictionary category_keywords
    c1,                   \* merge_categories: position of the outer loop
    processed_categories, \* merge_categories: the set processed_categories
    merged_categories,    \* the dictionary merged_categories
    g,                    \* organize_files: position of the loop over the groups
    f,                    \* organize_files: position of the loop over a group's files
    tree,                 \* the target tree: root made, directories, files
    at_source,            \* the source files still at their original location
    llm_log,              \* history: what each classification call did
    clusters,             \* history: similar_cats and its name, per seed
    move_log              \* history: one entry per pass through the try block

vars == <<source_files, target0, dry_run, pc, fault, stats, all_file_data,
          category_keywords, c1, processed_categories, merged_categories,
          g, f, tree, at_source, llm_log, clusters, move_log>>

inputs == <<source_files, target0, dry_run>>
mergeVars == <<category_keywords, c1, processed_categories, merged_categories,
               clusters>>
moveVars == <<g, f, tree, at_source, move_log>>

\* Target trees a run can start from: no target directory yet, or one that
\* already holds Docs/a.t.
TargetTrees ==
    {[root |-> FALSE, dirs |-> {}, files |-> {}],
     [root |-> TRUE, dirs |-> {Docs}, files |-> {<<Docs, <<"a", ".", "t">>>>}]}

\* The listings of at most MaxFiles files named from names.
Listings(names) == UNION {[1..n -> names] : n \in 0..MaxFiles}

\* The state organize_files starts in, for the given inputs.
InitFrom(listings, trees, modes) ==
    /\ source_files \in listings
    /\ target0 \in trees
    /\ dry_run \in modes
    /\ pc = "start"
    /\ fault = "none"
    /\ stats = [processed |-> 0, moved |-> 0, errors |-> 0]
    /\ all_file_data = <<>>
    /\ category_keywords = <<>>
    /\ c1 = 1
    /\ processed_categories = {}
    /\ merged_categories = <<>>
    /\ g = 1
    /\ f = 1
    /\ tree = target0
    /\ at_source = 1..Len(source_files)
    /\ llm_log = <<>>
    /\ clusters = <<>>
    /\ move_log = <<>>

Init == InitFrom(Listings(FileNames), TargetTrees, BOOLEAN)

\* merge_categories reads neither the target tree nor dry_run, and of a file
\* name only what analyze_filename made of it.
InitMerge ==
    InitFrom(Listings({<<"a", ".", "t">>}),
             {[root |-> FALSE, dirs |-> {}, files |-> {}]}, {TRUE})

(* ------------------------------ the steps ----------------------------- *)

\* Lines 152-157: the statistics start at zero and a real run makes the
\* target root.
Begin ==
    /\ pc = "start"
    /\ tree' = IF dry_run THEN tree ELSE [tree EXCEPT !.root = TRUE]
    /\ pc' = "collect"
    /\ UNCHANGED <<inputs, fault, stats, all_file_data, mergeVars, g, f,
                   at_source, llm_log, move_log>>

\* Lines 162-166: one iteration of the collecting loop, the collaborator's
\* call doing one of responses.
AnalyzeFrom(responses) ==
    /\ pc = "collect"
    /\ Len(all_file_data) < Len(source_files)
    /\ \E r \in responses :
         LET file_path == Len(all_file_data) + 1
             a == analyze_filename(source_files[file_path], r)
         IN  /\ all_file_data' = Append(all_file_data,
                     [file_path |-> file_path, category |-> a.category,
                      new_name |-> a.new_name, keywords |-> a.keywords])
             /\ llm_log' = Append(llm_log, r)
    /\ stats' = [stats EXCEPT !.processed = @ + 1]
    /\ UNCHANGED <<inputs, pc, fault, mergeVars, moveVars>>

Analyze == AnalyzeFrom(PlainResponses)

AnalyzeAny == AnalyzeFrom(Responses)

\* Lines 170, 90-96: merge_categories is entered and collects the keywords
\* of each category.
CollectProfiles ==
    /\ pc = "collect"
    /\ Len(all_file_data) = Len(source_files)
    /\ category_keywords' = CollectKeywords(all_file_data, 1, <<>>)
    /\ c1' = 1
    /\ pc' = "merge"
    /\ UNCHANGED <<inputs, fault, stats, all_file_data, processed_categories,
                   merged_categories, clusters, moveVars, llm_log>>

\* Lines 98-100: the outer loop skips a category that is in a cluster.
MergeSkip ==
    /\ pc = "merge"
    /\ c1 <= Len(category_keywords)
    /\ category_keywords[c1].category \in processed_categories
    /\ c1' = c1 + 1
    /\ UNCHANGED <<inputs, pc, fault, stats, all_file_data, category_keywords,
                   processed_categories, merged_categories, clusters, moveVars,
                   llm_log>>

\* Line 106: the division raises ZeroDivisionError, which nothing catches
\* before main.
MergeFault ==
    /\ pc = "merge"
    /\ c1 <= Len(category_keywords)
    /\ category_keywords[c1].category \notin processed_categories
    /\ SimilarCats(category_keywords, c1, 1, processed_categories,
                   <<category_keywords[c1].category>>).fault
    /\ pc' = "raised"
    /\ fault' = "ZeroDivisionError"
    /\ UNCHANGED <<inputs, stats, all_file_data, mergeVars, moveVars, llm_log>>

\* Lines 102-116: one iteration of the outer loop for an unprocessed seed.
MergeCluster ==
    /\ pc = "merge"
    /\ c1 <= Len(category_keywords)
    /\ category_keywords[c1].category \notin processed_categories
    /\ LET s == SimilarCats(category_keywords, c1, 1, processed_categories,
                            <<category_keywords[c1].category>>)
       IN  /\ ~s.fault
           /\ \E r \in IF Len(s.cats) = 1 THEN {[ok |-> TRUE, text |-> None]}
                       ELSE NamingResponses :
                LET merged_name == get_merged_category_name(s.cats, r)
                IN  /\ merged_categories' =
                           AppendFiles(merged_categories, merged_name, s.cats, 1,
                                       all_file_data)
                    /\ clusters' = Append(clusters,
                           [cats |-> s.cats, name |-> merged_name,
                            asked |-> Len(s.cats) > 1, answered |-> r.ok])
           /\ processed_categories' = AddProcessed(processed_categories, s.cats)
    /\ c1' = c1 + 1
    /\ UNCHANGED <<inputs, pc, fault, stats, all_file_data, category_keywords,
                   moveVars, llm_log>>

\* Line 118: merge_categories returns.
MergeReturn ==
    /\ pc = "merge"
    /\ c1 > Len(category_keywords)
    /\ pc' = "group"
    /\ g' = 1
    /\ UNCHANGED <<inputs, fault, stats, all_file_data, mergeVars, f, tree,
                   at_source, move_log, llm_log>>

\* Lines 173-177: the loop over the groups enters a group; a real run makes
\* its directory.
EnterGroup ==
    /\ pc = "group"
    /\ g <= Len(merged_categories)
    /\ tree' = IF dry_run THEN tree
               ELSE [tree EXCEPT !.dirs = @ \cup {merged_categories[g].name}]
    /\ f' = 1
    /\ pc' = "files"
    /\ UNCHANGED <<inputs, fault, stats, all_file_data, mergeVars, g, at_source,
                   move_log, llm_log>>

\* Lines 179-199: one iteration of the loop over a group's files.  The move
\* of a real run returns or raises; the except clause counts the fault.
MoveFile ==
    /\ pc = "files"
    /\ f <= Len(merged_categories[g].files)
    /\ LET category == merged_categories[g].name
           file == merged_categories[g].files[f]
           new_file_path == Resolve(tree.files, category, file.new_name)
       IN  \E ok \in IF dry_run THEN {TRUE} ELSE BOOLEAN :
              /\ tree' = IF ~dry_run /\ ok
                         THEN [tree EXCEPT !.files = MoveEffect(@, new_file_path)]
                         ELSE tree
              /\ at_source' = IF ~dry_run /\ ok
                              THEN at_source \ {file.file_path}
                              ELSE at_source
              /\ stats' = StatsAfterMove(stats, dry_run, ok)
              /\ move_log' = Append(move_log,
                     [file_path |-> file.file_path, category |-> category,
                      new_name |-> file.new_name, dest |-> new_file_path,
                      seen |-> tree.files,
                      outcome |-> IF dry_run THEN "would move"
                                  ELSE IF ok THEN "moved" ELSE "failed"])
    /\ f' = f + 1
    /\ UNCHANGED <<inputs, pc, fault, all_file_data, mergeVars, g, llm_log>>

\* Line 179: a group's files are exhausted; the loop goes to the next group.
LeaveGroup ==
    /\ pc = "files"
    /\ f > Len(merged_categories[g].files)
    /\ g' = g + 1
    /\ pc' = "group"
    /\ UNCHANGED <<inputs, fault, stats, all_file_data, mergeVars, f, tree,
                   at_source, move_log, llm_log>>

\* Line 201: organize_files returns stats.
Return ==
    /\ pc = "group"
    /\ g > Len(merged_categories)
    /\ pc' = "done"
    /\ UNCHANGED <<inputs, fault, stats, all_file_data, mergeVars, moveVars,
                   llm_log>>

Next ==
    \/ Begin
    \/ Analyze
    \/ CollectProfiles
    \/ MergeSkip
    \/ MergeFault
    \/ MergeCluster
    \/ MergeReturn
    \/ EnterGroup
    \/ MoveFile
    \/ LeaveGroup
    \/ Return

Spec == Init /\ [][Next]_vars

\* organize_files up to the return of merge_categories, with every response
\* of the classification collaborator.
NextMerge ==
    \/ Begin
    \/ AnalyzeAny
    \/ CollectProfiles
    \/ MergeSkip
    \/ MergeFault
    \/ MergeCluster
    \/ MergeReturn

SpecMerge == InitMerge /\ [][NextMerge]_vars

(* ------------------------------ the claims ---------------------------- *)

\* The position of category cat in category_keywords (its first-seen rank).
Pos(cat) == CHOOSE i \in 1..Len(category_keywords) :
                category_keywords[i].category = cat

\* The keyword profile of category cat.
Profile(cat) == category_keywords[Pos(cat)].keywords

\* The categories of category_keywords.
Categories == {category_keywords[i].category : i \in 1..Len(category_keywords)}

\* The categories of the clusters formed before the k-th.
Earlier(k) == UNION {Range(clusters[j].cats) : j \in 1..(k - 1)}

\* merge_categories has returned.
Merged == pc \in {"group", "files", "done"}

\* C1: the grouping step never raises a division fault; two categories whose
\* keyword sets are both empty have similarity 0 and the step completes.
C1_EmptyUnionIsNoFault == fault # "ZeroDivisionError"

\* C6: no classification fault aborts the batch: the run never leaves
\* organize_files by an exception, every file is counted as processed once
\* collection is over, a file whose classification failed is recorded as
\* ("Misc", its original name, no keywords), and errors is not incremented
\* while files are classified and grouped.
C6_ClassificationFaultsNeverAbort ==
    /\ pc # "raised"
    /\ pc \notin {"start", "collect"} => stats.processed = Len(source_files)
    /\ \A i \in 1..Len(llm_log) :
          (~llm_log[i].ok
             \/ (llm_log[i].category = None /\ llm_log[i].keywords = None
                   /\ llm_log[i].newname = None))
          => all_file_data[i] =
                [file_path |-> i, category |-> Misc,
                 new_name |-> source_files[i], keywords |-> <<>>]
    /\ pc \in {"start", "collect", "merge"} => stats.errors = 0

\* C4: after merge_categories every raw category is in exactly one cluster
\* and every file record is in exactly one place of the merged groups' lists.
C4_Partition ==
    Merged =>
      /\ \A cat \in Categories :
            Cardinality({kj \in {<<k, j>> : k \in 1..Len(clusters),
                                           j \in 1..Len(category_keywords)} :
                            /\ kj[2] <= Len(clusters[kj[1]].cats)
                            /\ clusters[kj[1]].cats[kj[2]] = cat}) = 1
      /\ \A i \in 1..Len(all_file_data) :
            Cardinality({gf \in {<<x, y>> : x \in 1..Len(merged_categories),
                                           y \in 1..Len(all_file_data)} :
                            /\ gf[2] <= Len(merged_categories[gf[1]].files)
                            /\ merged_categories[gf[1]].files[gf[2]].file_path = i}) = 1
      /\ \A x \in 1..Len(merged_categories) :
            \A y \in 1..Len(merged_categories[x].files) :
               merged_categories[x].files[y].new_name =
                  all_file_data[merged_categories[x].files[y].file_path].new_name

\* Two clusters were given one name and share a group.
C4_Witness ==
    /\ pc = "group"
    /\ Len(clusters) > Len(merged_categories)
    /\ \E k \in 1..Len(clusters) : Len(clusters[k].cats) > 1

\* The first position of all_file_data whose record has category cat.
FirstSeen(cat) == CHOOSE i \in 1..Len(all_file_data) :
                     /\ all_file_data[i].category = cat
                     /\ \A j \in 1..(i - 1) : all_file_data[j].category # cat

\* The Jaccard similarity of the profiles of a and b is above 3/10.
Similar(a, b) ==
    10 * Cardinality(Profile(a) \cap Profile(b))
       > 3 * Cardinality(Profile(a) \cup Profile(b))

\* C5: categories are visited in first-seen order; each cluster is its seed,
\* the first category not yet in a cluster, with exactly the categories not
\* yet in a cluster whose Jaccard similarity to the seed's own keyword
\* profile is strictly above 0.30.
C5_SeedNeighbourhood ==
    pc \in {"merge", "group", "files", "done"} =>
      /\ \A a, b \in Categories : Pos(a) < Pos(b) <=> FirstSeen(a) < FirstSeen(b)
      /\ \A cat \in Categories :
            Profile(cat) = UNION {Range(all_file_data[i].keywords) :
                                     i \in {j \in 1..Len(all_file_data) :
                                               all_file_data[j].category = cat}}
      /\ \A k \in 1..Len(clusters) :
            LET seed == clusters[k].cats[1]
                free == Categories \ Earlier(k)
            IN  /\ seed \in free
                /\ \A cat \in free : Pos(seed) <= Pos(cat)
                /\ Range(clusters[k].cats) =
                      {seed} \cup {cat \in free \ {seed} : Similar(seed, cat)}

\* A merged cluster leaves out a category that is similar to one of its
\* non-seed members and whose similarity to the seed is exactly 3/10.
C5_Witness ==
    /\ pc = "group"
    /\ \E k \in 1..Len(clusters) :
          \E b \in Range(clusters[k].cats) \ {clusters[k].cats[1]} :
             \E d \in Categories \ (Earlier(k) \cup Range(clusters[k].cats)) :
                /\ Similar(b, d)
                /\ 10 * Cardinality(Profile(clusters[k].cats[1]) \cap Profile(d))
                      = 3 * Cardinality(Profile(clusters[k].cats[1]) \cup Profile(d))

\* C8: when the naming collaborator is asked (two members or more) and its
\* call fails, the cluster's name is its first member, which is the seed and
\* the earliest member in first-seen order, and merging goes on: the
\* cluster's files are filed under that name.
C8_NamingFallback ==
    \A k \in 1..Len(clusters) :
       (clusters[k].asked /\ ~clusters[k].answered) =>
          /\ clusters[k].name = clusters[k].cats[1]
          /\ \A j \in 2..Len(clusters[k].cats) :
                Pos(clusters[k].cats[1]) < Pos(clusters[k].cats[j])
          /\ \A cat \in Categories \ Earlier(k) :
                Pos(clusters[k].cats[1]) <= Pos(cat)
          /\ fault = "none"
          /\ \E x \in 1..Len(merged_categories) :
                /\ merged_categories[x].name = clusters[k].cats[1]
                /\ \A i \in 1..Len(all_file_data) :
                      all_file_data[i].category \in Range(clusters[k].cats) =>
                         \E y \in 1..Len(merged_categories[x].files) :
                            merged_categories[x].files[y].file_path = i

\* A cluster of two categories or more was named by the fallback, and
\* merge_categories returned.
C8_Witness ==
    /\ pc = "group"
    /\ \E k \in 1..Len(clusters) :
          /\ clusters[k].asked
          /\ ~clusters[k].answered
          /\ Len(clusters[k].cats) > 1

\* The positions of move_log with the given outcome.
Logged(outcome) == {i \in 1..Len(move_log) : move_log[i].outcome = outcome}

\* C2: within one run no two files of one merged group are resolved to the
\* same destination path, and no resolved path exists when it is resolved.
C2_DistinctDestinations ==
    /\ \A i, j \in 1..Len(move_log) :
          (i < j /\ move_log[i].category = move_log[j].category)
             => move_log[i].dest # move_log[j].dest
    /\ \A i \in 1..Len(move_log) : move_log[i].dest \notin move_log[i].seen

\* The (category, destination) decisions of a real run whose moves all
\* succeed, over the groups from position x and the files from position y
\* on, the target tree holding the files existing.
RECURSIVE RealRunDecisions(_, _, _, _)
RealRunDecisions(merged, x, y, existing) ==
    IF x > Len(merged) THEN <<>>
    ELSE IF y > Len(merged[x].files) THEN RealRunDecisions(merged, x + 1, 1, existing)
    ELSE LET dest == Resolve(existing, merged[x].name, merged[x].files[y].new_name)
         IN  <<dest>> \o RealRunDecisions(merged, x, y + 1, MoveEffect(existing, dest))

\* C3: for one input, the sequence of (category, destination) decisions of
\* a dry run is the sequence of the real run.
C3_DryRunEquivalence ==
    (pc = "done" /\ dry_run) =>
       [i \in 1..Len(move_log) |-> move_log[i].dest]
          = RealRunDecisions(merged_categories, 1, 1, target0.files)

\* The paths taken when the i-th file is resolved: the files the target tree
\* held before the run and the destinations of the members resolved before.
Taken(i) ==
    target0.files \cup {move_log[j].dest : j \in (1..(i - 1)) \ Logged("failed")}

\* C9: a member's destination is root/displayName/suggestedName when no file
\* is there, pre-existing or left by a prior member of the run, and otherwise
\* stem_n+extension for the smallest positive n at which no file is; two
\* members suggested draft.txt resolve to draft.txt and draft_1.txt.
C9_SmallestFreeSuffix ==
    \A i \in 1..Len(move_log) :
       LET cat == move_log[i].category
           name == move_log[i].new_name
           split == SplitExt(name)
           Suffixed(n) == <<cat, split[1] \o <<"_">> \o IntToStr(n) \o split[2]>>
       IN  IF <<cat, name>> \notin Taken(i)
           THEN move_log[i].dest = <<cat, name>>
           ELSE \E n \in 1..(Cardinality(Taken(i)) + 1) :
                   /\ move_log[i].dest = Suffixed(n)
                   /\ Suffixed(n) \notin Taken(i)
                   /\ \A m \in 1..(n - 1) : Suffixed(m) \in Taken(i)

\* C7: a move fault of a real run is recovered locally: each fault adds one
\* to errors and nothing to moved, the file stays at its original location,
\* and the loops go on to every remaining file.
C7_MoveFaultIsLocal ==
    /\ stats.errors = Cardinality(Logged("failed"))
    /\ stats.moved = Cardinality(Logged("moved"))
    /\ \A i \in Logged("failed") : move_log[i].file_path \in at_source
    /\ \A i \in Logged("moved") : move_log[i].file_path \notin at_source
    /\ pc = "done" =>
          /\ {move_log[i].file_path : i \in 1..Len(move_log)} = 1..Len(source_files)
          /\ Len(move_log) = Len(source_files)
          /\ ~dry_run => Logged("moved") \cup Logged("failed") = 1..Len(move_log)

\* A real run ended in which a move failed and, after it, a file of the same
\* group and a file of a later group were moved.
C7_Witness ==
    /\ pc = "done"
    /\ \E i, j, k \in 1..Len(move_log) :
          /\ i < j /\ j < k
          /\ move_log[i].outcome = "failed"
          /\ move_log[j].outcome = "moved"
          /\ move_log[k].outcome = "moved"
          /\ move_log[i].category = move_log[j].category
          /\ move_log[j].category # move_log[k].category

\* C10: when organize_files returns, a real run has processed = moved +
\* errors, and a dry run has moved = 0 and has left the target tree and the
\* source files as they were.
C10_Accounting ==
    pc = "done" =>
       IF dry_run
       THEN /\ stats.moved = 0
            /\ tree = target0
            /\ at_source = 1..Len(source_files)
       ELSE stats.processed = stats.moved + stats.errors

\* A real run returned having moved files and failed to move others.
C10_Witness ==
    /\ pc = "done"
    /\ ~dry_run
    /\ stats.moved > 0
    /\ stats.errors > 0
    /\ stats.processed = Len(source_files)

====
